---- MODULE Spec2Model ----
(***************************************************************************)
(* A model of spyglass/parser/engine.py: class ProcessDataSource.          *)
(*                                                                         *)
(* Python values are modelled as follows.                                  *)
(*   - a dict is a function whose DOMAIN is its key set; where iteration   *)
(*     order is observable (vlan_network_data, baremetal, a rack, the      *)
(*     rules) an ordered dict is a sequence of [key, val] items;           *)
(*   - a CIDR string "a.b.c.d/p" is the tuple <<a, b, c, d, p>> and an     *)
(*     address string "a.b.c.d" is <<a, b, c, d>>; netaddr.IPNetwork       *)
(*     parses the former into a 32 bit value and a prefix length and str() *)
(*     formats them back;                                                  *)
(*   - list indexing is Python's: a negative index counts from the end     *)
(*     and an index outside -N .. N-1 raises IndexError;                   *)
(*   - an uncaught exception or sys.exit() ends the process.               *)
(***************************************************************************)
EXTENDS Integers, Sequences, FiniteSets, TLC

VARIABLES
    pc,                 \* position of the run
    data,               \* self.data, the working document
    extracted_data,     \* the document as the data source plugin produced it
    rules_data,         \* content of config/rules.yaml, an ordered dict
    schema_file_ok,     \* whether schemas/data_schema.json is a valid schema
    rule_idx,           \* position of the loop of _apply_design_rules
    called,             \* rule handlers invoked so far, in order
    validated,          \* "Data validation Passed!" was reached
    genesis_node,       \* self.genesis_node: None or a reference to a host
    intermediary_yaml,  \* value returned by generate_intermediary_yaml
    files,              \* artifacts written so far
    error               \* the exception that ended the process, if any

vars == <<pc, data, extracted_data, rules_data, schema_file_ok, rule_idx,
          called, validated, genesis_node, intermediary_yaml, files, error>>

(***************************************************************************)
(* Bounds of the model.                                                    *)
(***************************************************************************)
MaxOff == 17      \* offsets range over -MaxOff .. MaxOff
MaxRules == 2     \* entries of rules.yaml
MaxRacks == 2     \* racks of the baremetal block
MaxHosts == 2     \* hosts of one rack

None == <<>>

HasKey(d, k) == k \in DOMAIN d

\* dict item access on an ordered dict; the key is present
Item(od, k) == (CHOOSE i \in 1..Len(od) : od[i].key = k)
Get(od, k) == od[Item(od, k)].val

(***************************************************************************)
(* netaddr                                                                 *)
(***************************************************************************)
Pow2(n) == 2 ^ n

\* netaddr.IPNetwork(cidr): the address as given (host bits kept) and the
\* prefix length
IPNetwork(cidr) ==
    [value |-> cidr[1] * 16777216 + cidr[2] * 65536 + cidr[3] * 256 + cidr[4],
     prefixlen |-> cidr[5]]

\* len(list(subnet))
NetSize(net) == Pow2(32 - net.prefixlen)

\* IPNetwork.first: the network address
NetFirst(net) == net.value - (net.value % NetSize(net))

\* list(subnet): every address of the subnet, network address first
IPList(net) == [i \in 1..NetSize(net) |-> NetFirst(net) + (i - 1)]

\* str(IPAddress)
AddrStr(v) ==
    <<v \div 16777216, (v \div 65536) % 256, (v \div 256) % 256, v % 256>>

\* str(IPNetwork)
NetStr(net) == AddrStr(net.value) \o <<net.prefixlen>>

IndexError == -1

\* ips[k] of a Python list
GetItem_Clamped(ips, k) ==
    IF k >= Len(ips) THEN ips[Len(ips)]
    ELSE IF k >= 0 THEN ips[k + 1]
    ELSE IF k >= -Len(ips) THEN ips[Len(ips) + k + 1]
    ELSE ips[1]

GetItem(ips, k) ==
    IF 0 <= k /\ k < Len(ips) THEN ips[k + 1]
    ELSE IF k < 0 /\ k >= -Len(ips) THEN ips[Len(ips) + k + 1]
    ELSE IndexError

(***************************************************************************)
(* _apply_rule_ip_alloc_offset, lines 197-244: one iteration of the loop   *)
(* over network_subnets.  The result is the new entry, or the exception    *)
(* raised before the entry is stored into self.data.                       *)
(***************************************************************************)
IpOffset_DefaultOnly(net_type, rule_data) == rule_data.default

IpOffset(net_type, rule_data) ==
    IF net_type = "oob" THEN rule_data.oob ELSE rule_data.default

StaticStart_NoSkip(ips, ip_offset) == GetItem(ips, ip_offset)

StaticStart(ips, ip_offset) == GetItem(ips, ip_offset + 1)

PxeMid_Up(ips) == Len(ips) \div 2 + 1

PxeMid(ips) == Len(ips) \div 2

Routes(net_type) == IF net_type = "oam" THEN <<"0.0.0.0/0">> ELSE <<>>

ResolveEntry(net_type, old, subnet, rule_data) ==
    LET ips == IPList(subnet)
        ip_offset == IpOffset(net_type, rule_data)
        gateway == GetItem(ips, rule_data.gateway)
        reserved_start == GetItem(ips, 1)
        reserved_end == GetItem(ips, ip_offset)
        static_start == StaticStart(ips, ip_offset)
        static_end0 == GetItem(ips, rule_data.static_ip_end)
        mid == PxeMid(ips)
        static_end == IF net_type = "pxe" THEN GetItem(ips, mid - 1)
                      ELSE static_end0
        dhcp_start == GetItem(ips, mid)
        dhcp_end == GetItem(ips, rule_data.dhcp_ip_end)
        indexed == {gateway, reserved_start, reserved_end, static_start,
                    static_end0}
                   \cup (IF net_type = "pxe"
                         THEN {static_end, dhcp_start, dhcp_end} ELSE {})
        base == ("network" :> NetStr(subnet))
                @@ ("gateway" :> AddrStr(gateway))
                @@ ("reserved_start" :> AddrStr(reserved_start))
                @@ ("reserved_end" :> AddrStr(reserved_end))
                @@ ("static_start" :> AddrStr(static_start))
                @@ ("static_end" :> AddrStr(static_end))
                @@ ("routes" :> Routes(net_type))
        dhcp == IF net_type = "pxe"
                THEN ("dhcp_start" :> AddrStr(dhcp_start))
                     @@ ("dhcp_end" :> AddrStr(dhcp_end))
                ELSE <<>>
        vlan == IF net_type # "oob" THEN ("vlan" :> old["vlan"]) ELSE <<>>
    IN  IF IndexError \in indexed
        THEN [error |-> "IndexError", entry |-> old]
        ELSE IF net_type # "oob" /\ ~HasKey(old, "vlan")
        THEN [error |-> "KeyError", entry |-> old]
        ELSE [error |-> "none", entry |-> base @@ dhcp @@ vlan]

(***************************************************************************)
(* _get_network_subnets, lines 54-67: the parsed subnet of every network   *)
(* type but 'ingress', or KeyError when an entry has no 'subnet'.          *)
(***************************************************************************)
NonIngress(vnd) == {i \in 1..Len(vnd) : vnd[i].key # "ingress"}

_get_network_subnets(vnd) ==
    IF \E i \in NonIngress(vnd) : ~HasKey(vnd[i].val, "subnet")
    THEN [error |-> "KeyError", subnets |-> <<>>]
    ELSE [error |-> "none",
          subnets |-> [i \in NonIngress(vnd) |->
                          IPNetwork(vnd[i].val["subnet"])]]

(***************************************************************************)
(* _apply_rule_ip_alloc_offset, lines 161-247, on document d.  The result  *)
(* is the document as the handler leaves it and the exception it raised,   *)
(* if any: the bgp fields are stored before the loop starts, and each      *)
(* entry is stored at the end of its iteration.                            *)
(***************************************************************************)
IngressSubnet_Last(vnd) ==
    LET s == Get(vnd, "ingress")["subnet"] IN s[Len(s)]

IngressSubnet(vnd) == Get(vnd, "ingress")["subnet"][1]

Min(S) == CHOOSE x \in S : \A y \in S : x <= y

StoreEntry_Merge(old, new) == new @@ old

StoreEntry(old, new) == new

_apply_rule_ip_alloc_offset(d, rule_data) ==
    LET vnd == d["network"]["vlan_network_data"]
        cidr == IngressSubnet(vnd)
        vip == GetItem(IPList(IPNetwork(cidr)), rule_data.ingress_vip)
        bgp == ("ingress_vip" :> AddrStr(vip))
               @@ ("public_service_cidr" :> cidr)
               @@ d["network"]["bgp"]
        d1 == [d EXCEPT !["network"]["bgp"] = bgp]
        network_subnets == _get_network_subnets(vnd)
        res == [i \in NonIngress(vnd) |->
                   ResolveEntry(vnd[i].key, vnd[i].val,
                                network_subnets.subnets[i], rule_data)]
        failing == {i \in NonIngress(vnd) : res[i].error # "none"}
        stop == IF failing = {} THEN Len(vnd) + 1 ELSE Min(failing)
        vnd2 == [i \in 1..Len(vnd) |->
                    IF i \in NonIngress(vnd) /\ i < stop
                    THEN [key |-> vnd[i].key,
                          val |-> StoreEntry(vnd[i].val, res[i].entry)]
                    ELSE vnd[i]]
    IN  IF vip = IndexError
        THEN [data |-> d, error |-> "IndexError"]
        ELSE IF network_subnets.error # "none"
        THEN [data |-> d1, error |-> network_subnets.error]
        ELSE [data |-> [d1 EXCEPT !["network"]["vlan_network_data"] = vnd2],
              error |-> IF failing = {} THEN "none" ELSE res[stop].error]

\* _apply_rule_host_profile_interfaces, _apply_rule_hardware_profile
_apply_rule_host_profile_interfaces(d, rule_data) ==
    [data |-> d, error |-> "none"]

_apply_rule_hardware_profile(d, rule_data) == [data |-> d, error |-> "none"]

\* getattr(self, "_apply_rule_" + rule_name) finds a method
Handlers == {"host_profile_interfaces", "hardware_profile", "ip_alloc_offset"}

(***************************************************************************)
(* _get_genesis_node_details, lines 69-80.  self.genesis_node is bound to  *)
(* the host's own dict (no copy is made), so the assignment of 'name'      *)
(* writes into the baremetal block; genesis_node is the reference          *)
(* <<rack, host>> to that dict.                                            *)
(***************************************************************************)
IsGenesis(bm, r, h) == bm[r].val[h].val["type"] = "genesis"

Matches(bm) ==
    UNION {{<<r, h>> : h \in {k \in 1..Len(bm[r].val) : IsGenesis(bm, r, k)}} :
           r \in 1..Len(bm)}

\* m1 is met before m2 by the two nested loops
Before(m1, m2) == m1[1] < m2[1] \/ (m1[1] = m2[1] /\ m1[2] <= m2[2])

ScanResult_First(bm, old) ==
    IF Matches(bm) = {} THEN old
    ELSE CHOOSE m \in Matches(bm) : \A n \in Matches(bm) : Before(m, n)

ScanResult(bm, old) ==
    IF Matches(bm) = {} THEN old
    ELSE CHOOSE m \in Matches(bm) : \A n \in Matches(bm) : Before(n, m)

InjectName(bm) ==
    [r \in 1..Len(bm) |->
        [bm[r] EXCEPT !.val =
            [h \in 1..Len(bm[r].val) |->
                IF IsGenesis(bm, r, h)
                THEN [bm[r].val[h] EXCEPT !.val =
                         ("name" :> bm[r].val[h].key) @@ bm[r].val[h].val]
                ELSE bm[r].val[h]]]]

\* the dict self.genesis_node refers to
Deref(d, ref) == d["baremetal"][ref[1]].val[ref[2]].val

(***************************************************************************)
(* _validate_extracted_data, lines 82-128.                                 *)
(***************************************************************************)
\* lines 94-100: the baremetal dict of dicts as a flat list of one-key dicts
baremetal_list(bm) ==
    LET RECURSIVE flat(_)
        flat(r) == IF r > Len(bm) THEN <<>>
                   ELSE [h \in 1..Len(bm[r].val) |->
                            (bm[r].val[h].key :> bm[r].val[h].val)]
                        \o flat(r + 1)
    IN  flat(1)

\* the top-level keys schemas/data_schema.json requires
RequiredKeys == {"network", "baremetal", "storage", "site_info"}

\* jsonschema.validate(json_data, json_schema) raises no ValidationError
data_schema_valid(json_data) == RequiredKeys \subseteq DOMAIN json_data

\* outcome of _validate_extracted_data: the exception that leaves it, the
\* files it wrote
Validate_NoExit(doc, schema_ok) ==
    IF ~HasKey(doc, "baremetal")
    THEN [error |-> "KeyError", wrote |-> {}]
    ELSE [error |-> "none", wrote |-> {<<"data2.json">>}]

_validate_extracted_data(doc, schema_ok) ==
    IF ~HasKey(doc, "baremetal")
    THEN [error |-> "KeyError", wrote |-> {}]
    ELSE LET temp_data == [doc EXCEPT !["baremetal"] =
                               baremetal_list(doc["baremetal"])]
         IN  IF ~schema_ok \/ ~data_schema_valid(temp_data)
             THEN [error |-> "SystemExit", wrote |-> {<<"data2.json">>}]
             ELSE [error |-> "none", wrote |-> {<<"data2.json">>}]

\* __init__(sitetype)
region_name == "site1"

\* _initialize_intermediary, lines 41-52
InitialData ==
    ("network" :> <<>>) @@ ("baremetal" :> <<>>) @@ ("region_name" :> "")
    @@ ("storage" :> <<>>) @@ ("site_info" :> <<>>)

\* lines 270-277: the path of the intermediary file
IntermediaryFile(d, intermediary_dir) ==
    LET intermediary_file == <<d["region_name"], "_intermediary.yaml">>
    IN  IF intermediary_dir # None
        THEN intermediary_dir \o <<"/">> \o intermediary_file
        ELSE intermediary_file

(***************************************************************************)
(* The run.  The caller constructs the object, then calls                  *)
(* load_extracted_data_from_data_source, generate_intermediary_yaml and    *)
(* dump_intermediary_file in that order; an exception or sys.exit() in one *)
(* of them ends the process.                                               *)
(***************************************************************************)
\* the caller is about to call the method: it constructs the object, loads
\* the extracted data, generates the intermediary document and dumps it
Caller(method) ==
    CASE method = "load_extracted_data_from_data_source" -> pc = "start"
      [] method = "generate_intermediary_yaml" -> pc = "rules"
      [] method = "dump_intermediary_file" -> pc = "generated"

Raise(e) ==
    /\ pc' = IF e = "SystemExit" THEN "exited" ELSE "crashed"
    /\ error' = e

\* lines 249-265
load_extracted_data_from_data_source ==
    /\ Caller("load_extracted_data_from_data_source")
    /\ LET v == _validate_extracted_data(extracted_data, schema_file_ok)
       IN  IF v.error # "none"
           THEN /\ Raise(v.error)
                /\ files' = files \cup v.wrote
                /\ UNCHANGED <<data, validated>>
           ELSE /\ validated' = TRUE
                /\ data' = ("region_name" :> region_name) @@ extracted_data
                /\ files' = files \cup v.wrote \cup {<<"extracted_file.yaml">>}
                /\ pc' = "rules"
                /\ UNCHANGED error
    /\ UNCHANGED <<extracted_data, rules_data, schema_file_ok, rule_idx,
                   called, genesis_node, intermediary_yaml>>

\* the handler getattr found, applied to the document
CallHandler(rule_name, d, rule_data) ==
    CASE rule_name = "ip_alloc_offset" ->
             _apply_rule_ip_alloc_offset(d, rule_data)
      [] rule_name = "host_profile_interfaces" ->
             _apply_rule_host_profile_interfaces(d, rule_data)
      [] rule_name = "hardware_profile" ->
             _apply_rule_hardware_profile(d, rule_data)

\* lines 148-152: the handler of one rule entry is looked up and called;
\* the result is the document, the exception raised, and whether a handler
\* was invoked
DispatchRule_Lenient(d, rule) ==
    IF HasKey(rule, rule["name"]) /\ rule["name"] \in Handlers
    THEN [data |-> CallHandler(rule["name"], d, rule[rule["name"]]).data,
          error |-> "none", invoked |-> TRUE]
    ELSE [data |-> d, error |-> "none", invoked |-> FALSE]

DispatchRule(d, rule) ==
    LET rule_name == rule["name"]
    IN  IF ~HasKey(rule, rule_name)
        THEN [data |-> d, error |-> "KeyError", invoked |-> FALSE]
        ELSE IF rule_name \notin Handlers
        THEN [data |-> d, error |-> "AttributeError", invoked |-> FALSE]
        ELSE LET r == CallHandler(rule_name, d, rule[rule_name])
             IN  [data |-> r.data, error |-> r.error, invoked |-> TRUE]

\* lines 147-153: one iteration of the loop of _apply_design_rules
_apply_design_rules ==
    /\ Caller("generate_intermediary_yaml")
    /\ rule_idx <= Len(rules_data)
    /\ LET r == DispatchRule(data, rules_data[rule_idx].val)
       IN  /\ called' = IF r.invoked THEN Append(called, rule_idx) ELSE called
           /\ data' = r.data
           /\ IF r.error # "none"
              THEN Raise(r.error) /\ UNCHANGED rule_idx
              ELSE /\ rule_idx' = rule_idx + 1
                   /\ UNCHANGED <<pc, error>>
    /\ UNCHANGED <<extracted_data, rules_data, schema_file_ok, validated,
                   genesis_node, intermediary_yaml, files>>

\* lines 69-80, called at line 287 once the loop over the rules has ended
_get_genesis_node_details ==
    /\ Caller("generate_intermediary_yaml")
    /\ rule_idx > Len(rules_data)
    /\ genesis_node' = ScanResult(data["baremetal"], genesis_node)
    /\ data' = [data EXCEPT !["baremetal"] = InjectName(data["baremetal"])]
    /\ pc' = "genesis"
    /\ UNCHANGED <<extracted_data, rules_data, schema_file_ok, rule_idx,
                   called, validated, intermediary_yaml, files, error>>

\* lines 288-289
generate_intermediary_yaml ==
    /\ pc = "genesis"
    /\ intermediary_yaml' = data
    /\ pc' = "generated"
    /\ UNCHANGED <<data, extracted_data, rules_data, schema_file_ok, rule_idx,
                   called, validated, genesis_node, files, error>>

\* lines 267-281
dump_intermediary_file ==
    /\ Caller("dump_intermediary_file")
    /\ \E intermediary_dir \in {None, <<"out">>} :
          files' = files \cup {IntermediaryFile(data, intermediary_dir)}
    /\ pc' = "dumped"
    /\ UNCHANGED <<data, extracted_data, rules_data, schema_file_ok, rule_idx,
                   called, validated, genesis_node, intermediary_yaml, error>>

Next ==
    \/ load_extracted_data_from_data_source
    \/ _apply_design_rules
    \/ _get_genesis_node_details
    \/ generate_intermediary_yaml
    \/ dump_intermediary_file

(***************************************************************************)
(* Inputs: the extracted document, rules.yaml and the schema file.         *)
(***************************************************************************)
NetTypes == {"oob", "oam", "pxe", "storage"}

Net(t, cidr, vlan) == [key |-> t, val |-> ("subnet" :> cidr) @@ ("vlan" :> vlan)]
NetNoVlan(t, cidr) == [key |-> t, val |-> ("subnet" :> cidr)]
Ingress(cidrs) == [key |-> "ingress", val |-> ("subnet" :> cidrs)]

\* subnets of 16, 32, 8, 4 and 2 addresses; 10.0.1.37/27 has host bits set
Cidr28 == <<10, 0, 0, 0, 28>>
Cidr28b == <<10, 0, 7, 240, 28>>
Cidr27 == <<10, 0, 1, 37, 27>>
Cidr29 == <<10, 0, 3, 8, 29>>
Cidr30 == <<10, 0, 4, 4, 30>>
Cidr31 == <<10, 0, 5, 6, 31>>

VlanAll ==
    <<Net("oam", Cidr28, 101), Ingress(<<Cidr28b, Cidr29>>),
      NetNoVlan("oob", Cidr28b), Net("pxe", Cidr28, 102),
      Net("storage", Cidr27, 103)>>

VlanMixed ==
    <<Ingress(<<Cidr27>>), Net("oob", Cidr27, 99), Net("pxe", Cidr27, 102),
      Net("oam", Cidr28b, 101)>>

VlanIngressOnly == <<Ingress(<<Cidr29, Cidr28>>)>>

VlanSingles ==
    {<<Ingress(<<Cidr28, Cidr29>>),
       IF t = "oob" THEN NetNoVlan(t, c) ELSE Net(t, c, 104)>> :
        t \in NetTypes, c \in {Cidr28, Cidr27, Cidr30, Cidr31}}

VlanNoVlan == <<NetNoVlan("storage", Cidr28), Ingress(<<Cidr28b>>)>>

VlanDocs == {VlanAll, VlanMixed, VlanIngressOnly, VlanNoVlan} \cup VlanSingles

Host(name, type) == [key |-> name, val |-> ("type" :> type)]

HostTypes == {"genesis", "worker"}

RackHosts ==
    UNION {[1..n -> HostTypes] : n \in 0..MaxHosts}

Rack(r, types) ==
    [key |-> <<"rack", r>>,
     val |-> [h \in 1..Len(types) |-> Host(<<"host", r, h>>, types[h])]]

Baremetals ==
    UNION {{[r \in 1..n |-> Rack(r, t[r])] : t \in [1..n -> RackHosts]} :
           n \in 0..MaxRacks}

BaremetalOne == <<Rack(1, <<"worker", "genesis">>)>>

Document(vnd, bm) ==
    ("network" :> [vlan_network_data |-> vnd, bgp |-> ("asnumber" :> 64671)])
    @@ ("baremetal" :> bm) @@ ("region_name" :> "")
    @@ ("storage" :> <<>>) @@ ("site_info" :> <<>>)

Without(doc, k) == [x \in DOMAIN doc \ {k} |-> doc[x]]

Offsets == -MaxOff .. MaxOff

OffsetFields ==
    {"default", "oob", "gateway", "ingress_vip", "static_ip_end", "dhcp_ip_end"}

\* offsets counted from the start of the subnet
BaseOffsets ==
    [default |-> 3, oob |-> 2, gateway |-> 1, ingress_vip |-> 1,
     static_ip_end |-> 12, dhcp_ip_end |-> 14]

\* offsets with the ends of the ranges counted from the end of the subnet
EndOffsets ==
    [default |-> 0, oob |-> 0, gateway |-> 1, ingress_vip |-> 1,
     static_ip_end |-> -2, dhcp_ip_end |-> -2]

OverflowOffsets == [BaseOffsets EXCEPT !.static_ip_end = 16]

RuleData ==
    {[b EXCEPT ![f] = v] : b \in {BaseOffsets, EndOffsets},
                           f \in OffsetFields, v \in Offsets}
    \cup {[BaseOffsets EXCEPT !.default = v, !.oob = v, !.static_ip_end = w] :
             v \in Offsets, w \in Offsets}

Rule(name, payload) == ("name" :> name) @@ (name :> payload)

RuleEntries(rule_data) ==
    {Rule("ip_alloc_offset", rule_data), Rule("host_profile_interfaces", <<>>),
     Rule("hardware_profile", <<>>), Rule("no_such_rule", <<>>),
     ("name" :> "hardware_profile")}

RulesYaml(rule_data) ==
    UNION {{[i \in 1..n |-> [key |-> i, val |-> e[i]]] :
               e \in [1..n -> RuleEntries(rule_data)]} : n \in 0..MaxRules}

IpRuleOnly(rule_data) ==
    <<[key |-> 1, val |-> Rule("ip_alloc_offset", rule_data)]>>

InitObject ==
    /\ pc = "start"
    /\ data = InitialData
    /\ rule_idx = 1
    /\ called = <<>>
    /\ validated = FALSE
    /\ genesis_node = None
    /\ intermediary_yaml = None
    /\ files = {}
    /\ error = "none"

\* any rules.yaml, valid and invalid documents and schema files
InitRules ==
    /\ \E o \in {BaseOffsets, EndOffsets, OverflowOffsets} :
          rules_data \in RulesYaml(o)
    /\ \E vnd \in {VlanAll, VlanIngressOnly}, missing \in {"", "storage", "baremetal"} :
          extracted_data = Without(Document(vnd, BaremetalOne), missing)
    /\ schema_file_ok \in BOOLEAN

\* any baremetal block
InitBaremetal ==
    /\ rules_data \in {<<>>, IpRuleOnly(BaseOffsets)}
    /\ \E bm \in Baremetals : extracted_data = Document(VlanAll, bm)
    /\ schema_file_ok = TRUE

\* any offsets
InitOffsets ==
    /\ \E o \in RuleData : rules_data = IpRuleOnly(o)
    /\ \E vnd \in VlanDocs : extracted_data = Document(vnd, BaremetalOne)
    /\ schema_file_ok = TRUE

Init == InitObject /\ (InitRules \/ InitBaremetal \/ InitOffsets)

Spec == Init /\ [][Next]_vars

(***************************************************************************)
(* Vocabulary of the properties.                                           *)
(***************************************************************************)
InVnd == extracted_data["network"]["vlan_network_data"]
OutVnd == data["network"]["vlan_network_data"]

IpRules ==
    {i \in 1..Len(rules_data) : rules_data[i].val["name"] = "ip_alloc_offset"}

\* the offsets of the ip_alloc_offset rule of rules.yaml
O == rules_data[CHOOSE i \in IpRules : TRUE].val["ip_alloc_offset"]

Nets == {k \in 1..Len(InVnd) : InVnd[k].key # "ingress"}
TypeOf(k) == InVnd[k].key
N(k) == Pow2(32 - InVnd[k].val["subnet"][5])
AddrVal(str) == str[1] * 16777216 + str[2] * 65536 + str[3] * 256 + str[4]
FirstAddr(cidr) == AddrVal(cidr) - (AddrVal(cidr) % Pow2(32 - cidr[5]))
First(k) == FirstAddr(InVnd[k].val["subnet"])

\* the rule has stored its entry for network k
Produced(k) == validated /\ HasKey(OutVnd[k].val, "network")
Out(k) == OutVnd[k].val

\* position of a resolved address in the address list of its subnet
Index(k, field) == AddrVal(Out(k)[field]) - First(k)

ip_offset(k) == IF TypeOf(k) = "oob" THEN O.oob ELSE O.default

\* what a Python list index denotes
FromEnd(n, off) == IF off < 0 THEN n + off ELSE off

InRange(k) ==
    /\ N(k) > 1
    /\ {O.gateway, ip_offset(k), ip_offset(k) + 1, O.static_ip_end}
           \subseteq 0 .. N(k) - 1

ResolvedFields ==
    {"network", "gateway", "reserved_start", "reserved_end", "static_start",
     "static_end", "routes"}

(***************************************************************************)
(* C5: for every non-ingress, non-pxe network type with in-range offsets   *)
(* the entry the rule produces is the one of spec 4.2: network is the      *)
(* subnet string, gateway = ips[gateway], reserved_start = ips[1],         *)
(* reserved_end = ips[ip_offset], static_start = ips[ip_offset + 1],       *)
(* static_end = ips[static_ip_end], with ip_offset = oob for 'oob' and     *)
(* default otherwise; routes is ["0.0.0.0/0"] iff the type is 'oam'; vlan  *)
(* is present, and the input's, iff the type is not 'oob'.                 *)
(***************************************************************************)
C5_GeneralEntry ==
    \A k \in Nets :
        (Produced(k) /\ TypeOf(k) # "pxe" /\ InRange(k)) =>
            /\ Out(k)["network"] = InVnd[k].val["subnet"]
            /\ Out(k)["gateway"] = AddrStr(First(k) + O.gateway)
            /\ Out(k)["reserved_start"] = AddrStr(First(k) + 1)
            /\ Out(k)["reserved_end"] =
                   AddrStr(First(k) + (IF TypeOf(k) = "oob" THEN O.oob
                                       ELSE O.default))
            /\ Out(k)["static_start"] =
                   AddrStr(First(k) + 1 + (IF TypeOf(k) = "oob" THEN O.oob
                                           ELSE O.default))
            /\ Out(k)["static_end"] = AddrStr(First(k) + O.static_ip_end)
            /\ Out(k)["routes"] = (IF TypeOf(k) = "oam" THEN <<"0.0.0.0/0">>
                                   ELSE <<>>)
            /\ (HasKey(Out(k), "vlan") <=> TypeOf(k) # "oob")
            /\ (TypeOf(k) # "oob" => Out(k)["vlan"] = InVnd[k].val["vlan"])

\* an 'oob' entry whose input carried a vlan, and an 'oam' entry, both
\* produced from offsets where oob and default differ
C5_Witness ==
    /\ pc = "dumped"
    /\ IpRules # {}
    /\ O.oob # O.default
    /\ \E k \in Nets : /\ Produced(k) /\ TypeOf(k) = "oob" /\ InRange(k)
                       /\ HasKey(InVnd[k].val, "vlan")
    /\ \E k \in Nets : Produced(k) /\ TypeOf(k) = "oam" /\ InRange(k)

(***************************************************************************)
(* C2 as stated: for every resolved network type, every subnet of          *)
(* N >= 16 addresses and offsets with 0 < ip_offset < static_ip_end < N-1, *)
(* reserved_start, reserved_end, static_start, static_end are addresses of *)
(* the subnet and strictly increasing in that order.                       *)
(***************************************************************************)
InSubnet(k) ==
    \A f \in {"reserved_start", "reserved_end", "static_start", "static_end"} :
        Index(k, f) \in 0 .. N(k) - 1

StrictlyIncreasing(k) ==
    /\ Index(k, "reserved_start") < Index(k, "reserved_end")
    /\ Index(k, "reserved_end") < Index(k, "static_start")
    /\ Index(k, "static_start") < Index(k, "static_end")

C2_Original ==
    \A k \in Nets :
        (/\ Produced(k)
         /\ N(k) >= 16
         /\ 0 < ip_offset(k)
         /\ ip_offset(k) < O.static_ip_end
         /\ O.static_ip_end < N(k) - 1) =>
            InSubnet(k) /\ StrictlyIncreasing(k)

(***************************************************************************)
(* C2 amended: the same with 1 < ip_offset and                             *)
(* ip_offset + 1 < static_ip_end < N-1, and for 'pxe', whose static_end is *)
(* ips[N//2 - 1] whatever static_ip_end is, with ip_offset + 1 < N//2 - 1. *)
(***************************************************************************)
C2_Ordered ==
    \A k \in Nets :
        (/\ Produced(k)
         /\ N(k) >= 16
         /\ 1 < ip_offset(k)
         /\ ip_offset(k) + 1 < O.static_ip_end
         /\ O.static_ip_end < N(k) - 1
         /\ (TypeOf(k) = "pxe" => ip_offset(k) + 1 < (N(k) \div 2) - 1)) =>
            InSubnet(k) /\ StrictlyIncreasing(k)

\* a 'storage' and a 'pxe' entry resolved under the amended precondition
C2_Witness ==
    /\ IpRules # {}
    /\ \A t \in {"storage", "pxe"} :
          \E k \in Nets :
             /\ TypeOf(k) = t
             /\ Produced(k)
             /\ N(k) >= 16
             /\ 1 < ip_offset(k)
             /\ ip_offset(k) + 1 < O.static_ip_end
             /\ O.static_ip_end < N(k) - 1
             /\ ip_offset(k) + 1 < (N(k) \div 2) - 1

(***************************************************************************)
(* C4: for 'pxe', whenever the entry is resolved, static_end is            *)
(* ips[N//2 - 1] and dhcp_start is ips[N//2], adjacent and the same for    *)
(* every static_ip_end; dhcp_end is ips[dhcp_ip_end]; no other network     *)
(* type has dhcp_start or dhcp_end.                                        *)
(***************************************************************************)
C4_PxeSplit ==
    /\ \A k \in Nets :
          (Produced(k) /\ TypeOf(k) = "pxe") =>
              /\ Out(k)["static_end"] = AddrStr(First(k) + (N(k) \div 2) - 1)
              /\ Out(k)["dhcp_start"] = AddrStr(First(k) + (N(k) \div 2))
              /\ Index(k, "dhcp_start") - Index(k, "static_end") = 1
              /\ Out(k)["dhcp_end"] =
                     AddrStr(First(k) + FromEnd(N(k), O.dhcp_ip_end))
    /\ validated =>
          \A k \in 1..Len(OutVnd) :
              OutVnd[k].key # "pxe" =>
                  {"dhcp_start", "dhcp_end"} \cap DOMAIN OutVnd[k].val = {}

\* a resolved 'pxe' entry whose static_ip_end is not the middle of the
\* subnet, next to a resolved entry of another type
C4_Witness ==
    /\ IpRules # {}
    /\ \E k \in Nets : /\ Produced(k) /\ TypeOf(k) = "pxe"
                       /\ FromEnd(N(k), O.static_ip_end) # (N(k) \div 2) - 1
    /\ \E k \in Nets : Produced(k) /\ TypeOf(k) # "pxe"

(***************************************************************************)
(* C8: the rule sets bgp.ingress_vip to ips[ingress_vip] of the first      *)
(* subnet of the 'ingress' entry and bgp.public_service_cidr to that first *)
(* subnet string unchanged; later subnets of the sequence play no part and *)
(* the 'ingress' entry of vlan_network_data stays as it was.               *)
(***************************************************************************)
InIngress == InVnd[CHOOSE k \in 1..Len(InVnd) : InVnd[k].key = "ingress"].val
Bgp == data["network"]["bgp"]

C8_IngressBgp ==
    validated =>
        /\ HasKey(Bgp, "ingress_vip") =>
              LET first == InIngress["subnet"][1]
                  n == Pow2(32 - first[5])
              IN  /\ Bgp["ingress_vip"] =
                         AddrStr(FirstAddr(first) + FromEnd(n, O.ingress_vip))
                  /\ Bgp["public_service_cidr"] = first
        /\ \A k \in 1..Len(OutVnd) :
              OutVnd[k].key = "ingress" => OutVnd[k] = InVnd[k]

\* the bgp fields are set from an 'ingress' entry of two different subnets,
\* and other entries have been resolved
C8_Witness ==
    /\ pc = "dumped"
    /\ HasKey(Bgp, "ingress_vip")
    /\ Len(InIngress["subnet"]) = 2
    /\ InIngress["subnet"][1] # InIngress["subnet"][2]
    /\ \E k \in Nets : Produced(k)

(***************************************************************************)
(* C6: the genesis lookup returns the last host, in rack-then-host order,  *)
(* whose type is 'genesis', with name equal to that host's key; when no    *)
(* host is of that type the result is absent, and the run still completes  *)
(* and returns the document.                                               *)
(***************************************************************************)
InBm == extracted_data["baremetal"]

GenesisHosts ==
    {m \in (1..Len(InBm)) \X (1..MaxHosts) :
        /\ m[2] <= Len(InBm[m[1]].val)
        /\ InBm[m[1]].val[m[2]].val["type"] = "genesis"}

Later(m, n) == n[1] > m[1] \/ (n[1] = m[1] /\ n[2] > m[2])

LookupDone == pc \in {"genesis", "generated", "dumped"}

C6_LastGenesisWins ==
    /\ LookupDone =>
          /\ GenesisHosts = {} => genesis_node = None
          /\ \A m \in GenesisHosts :
                (\A n \in GenesisHosts : ~Later(m, n)) =>
                    /\ genesis_node = m
                    /\ Deref(data, genesis_node)["name"] =
                           InBm[m[1]].val[m[2]].key
                    /\ Deref(data, genesis_node)["type"] = "genesis"
    /\ pc = "genesis" => ENABLED generate_intermediary_yaml
    /\ pc \in {"generated", "dumped"} =>
          intermediary_yaml = data /\ error = "none"

\* two racks with a genesis host each: the lookup has returned the second
C6_Witness ==
    /\ pc = "generated"
    /\ \E m, n \in GenesisHosts : m[1] < n[1]
    /\ genesis_node # None

\* no genesis host at all, and the document has been returned
C6_WitnessAbsent ==
    /\ pc = "generated"
    /\ GenesisHosts = {}
    /\ Len(InBm) > 0

(***************************************************************************)
(* C1 as stated: the genesis lookup leaves the baremetal block as it was:  *)
(* every host entry, the genesis hosts included, has the attribute mapping *)
(* it had before the lookup.                                               *)
(***************************************************************************)
C1_BaremetalUntouched ==
    LookupDone => data["baremetal"] = extracted_data["baremetal"]

(***************************************************************************)
(* C7: validation is a gate.  When the document fails validation the run   *)
(* ends inside load_extracted_data_from_data_source: the document is not   *)
(* adopted, no rule handler is invoked, neither the echo file nor the      *)
(* intermediary file is written; and no rule handler ever runs unless      *)
(* validation has succeeded before.                                        *)
(***************************************************************************)
FailsValidation ==
    \/ ~schema_file_ok
    \/ ~({"baremetal", "storage"} \subseteq DOMAIN extracted_data)

C7_ValidationGate ==
    /\ called # <<>> => validated
    /\ (pc # "start" /\ FailsValidation) =>
          /\ pc \in {"exited", "crashed"}
          /\ ~validated
          /\ data = InitialData
          /\ called = <<>>
          /\ files \subseteq {<<"data2.json">>}
    /\ ~validated =>
          /\ rule_idx = 1
          /\ genesis_node = None
          /\ intermediary_yaml = None

\* a document without 'storage' has been rejected
C7_Witness ==
    /\ pc = "exited"
    /\ schema_file_ok
    /\ ~HasKey(extracted_data, "storage")
    /\ Len(rules_data) > 0

\* a valid document has gone through a rule handler
C7_WitnessPassed == validated /\ called # <<>> /\ ~FailsValidation

(***************************************************************************)
(* C3 as stated: an offset the rule uses (gateway, default/oob,            *)
(* default/oob + 1, static_ip_end, dhcp_ip_end for pxe, ingress_vip) that  *)
(* is negative or >= N makes the rule fail with an out-of-range error; no  *)
(* address field is ever produced from such an offset.                     *)
(***************************************************************************)
UsedOffsets(k) ==
    {1, O.gateway, ip_offset(k), ip_offset(k) + 1, O.static_ip_end}
    \cup (IF TypeOf(k) = "pxe" THEN {O.dhcp_ip_end} ELSE {})

IngressN == Pow2(32 - InIngress["subnet"][1][5])

Called(i) == \E j \in 1..Len(called) : called[j] = i
IpCalled == \E i \in IpRules : Called(i)

C3_Original ==
    /\ \A k \in Nets : Produced(k) => UsedOffsets(k) \subseteq 0 .. N(k) - 1
    /\ (validated /\ HasKey(Bgp, "ingress_vip")) =>
          O.ingress_vip \in 0 .. IngressN - 1

(***************************************************************************)
(* C3 amended: an offset the rule uses that is >= N or < -N makes the rule *)
(* fail with IndexError, and no address field is ever produced from such   *)
(* an offset; an offset in -N .. -1 is accepted and counts from the end of *)
(* the address list (ips[N + offset]); offsets all within -N .. N-1 never  *)
(* raise IndexError.                                                       *)
(***************************************************************************)
Indexable(k) == UsedOffsets(k) \subseteq -N(k) .. N(k) - 1
VipIndexable == O.ingress_vip \in -IngressN .. IngressN - 1
VlanMissing(k) == TypeOf(k) # "oob" /\ ~HasKey(InVnd[k].val, "vlan")

\* the first application of the rule reaches an index outside the list
ReachesBadIndex ==
    \/ ~VipIndexable
    \/ \E k \in Nets :
          /\ ~Indexable(k)
          /\ \A j \in Nets : (j < k /\ VlanMissing(j)) => ~Indexable(j)

C3_OutOfRangeFails ==
    /\ \A k \in Nets :
          Produced(k) =>
              /\ Indexable(k)
              /\ Out(k)["gateway"] =
                     AddrStr(First(k) + FromEnd(N(k), O.gateway))
              /\ Out(k)["reserved_end"] =
                     AddrStr(First(k) + FromEnd(N(k), ip_offset(k)))
              /\ Out(k)["static_start"] =
                     AddrStr(First(k) + FromEnd(N(k), ip_offset(k) + 1))
              /\ (TypeOf(k) # "pxe" =>
                     Out(k)["static_end"] =
                         AddrStr(First(k) + FromEnd(N(k), O.static_ip_end)))
    /\ (validated /\ HasKey(Bgp, "ingress_vip")) => VipIndexable
    /\ (IpCalled /\ ReachesBadIndex) =>
          error = "IndexError" /\ pc = "crashed"
    /\ (IpCalled /\ VipIndexable /\ \A k \in Nets : Indexable(k)) =>
          error # "IndexError"

\* an entry produced from static_ip_end = -2, and from ip_offset = -1
C3_Witness ==
    /\ pc = "dumped"
    /\ IpRules # {}
    /\ \E k \in Nets : Produced(k) /\ TypeOf(k) # "pxe" /\ O.static_ip_end < 0

(***************************************************************************)
(* C9: rule handlers run in the order of the rule collection, and a fatal  *)
(* error during rule application (no handler registered for the rule name, *)
(* an offset past the end of a subnet's address list) aborts the run       *)
(* there: no handler of a later rule runs, the genesis lookup does not     *)
(* run, no document is returned, no intermediary file is written.          *)
(***************************************************************************)
PastEnd(i) ==
    /\ i \in IpRules
    /\ \/ O.ingress_vip >= IngressN
       \/ \E k \in Nets : \E off \in UsedOffsets(k) : off >= N(k)

Unregistered(i) == rules_data[i].val["name"] \notin Handlers

C9_RulesInOrderAbort ==
    /\ \A j \in 1..Len(called) : j > 1 => called[j - 1] < called[j]
    /\ \A j \in 1..Len(called) : called[j] <= rule_idx
    /\ rule_idx <= Len(rules_data) + 1
    /\ (validated /\ pc = "crashed") =>
          /\ Len(called) <= rule_idx
          /\ genesis_node = None
          /\ intermediary_yaml = None
          /\ files \subseteq {<<"data2.json">>, <<"extracted_file.yaml">>}
          /\ ~ENABLED Next
    /\ \A i \in 1..Len(rules_data) :
          (Unregistered(i) \/ PastEnd(i)) =>
              /\ rule_idx <= i
              /\ ~LookupDone
              /\ intermediary_yaml = None
              /\ \A j \in i + 1 .. Len(rules_data) : ~Called(j)

\* the run was aborted at a rule that is not the last, after a handler ran
C9_Witness ==
    /\ pc = "crashed"
    /\ error \in {"AttributeError", "IndexError"}
    /\ rule_idx < Len(rules_data)
    /\ called # <<>>

(***************************************************************************)
(* C10 as stated: resolution only adds fields: every non-ingress entry     *)
(* keeps its subnet field with the same value, so that a second            *)
(* application of the rule succeeds and yields the same entries.           *)
(***************************************************************************)
\* the handler of rule entry j was invoked, and it was not the first
\* invocation of the ip_alloc_offset handler
SecondIpAt(j) == j \in IpRules /\ Called(j) /\ \E i \in IpRules : i < j
SecondIp == \E j \in IpRules : SecondIpAt(j)

C10_Original ==
    /\ \A k \in Nets :
          Produced(k) =>
              /\ HasKey(Out(k), "subnet")
              /\ Out(k)["subnet"] = InVnd[k].val["subnet"]
    /\ \A j \in IpRules : SecondIpAt(j) => rule_idx > j

(***************************************************************************)
(* C10 amended: resolution replaces a non-ingress entry: after the rule    *)
(* the entry holds exactly network, gateway, reserved_start, reserved_end, *)
(* static_start, static_end, routes (and vlan unless 'oob', dhcp_start and *)
(* dhcp_end for 'pxe'); the subnet field is gone and its value is kept as  *)
(* network.  A second application of the rule to the same document, when   *)
(* it has a non-ingress entry, fails with KeyError on the missing subnet   *)
(* and leaves the entries as the first application produced them.          *)
(***************************************************************************)
FieldsOf(k) ==
    ResolvedFields
    \cup (IF TypeOf(k) = "oob" THEN {} ELSE {"vlan"})
    \cup (IF TypeOf(k) = "pxe" THEN {"dhcp_start", "dhcp_end"} ELSE {})

C10_EntryReplaced ==
    /\ \A k \in Nets :
          /\ Produced(k) =>
                /\ DOMAIN Out(k) = FieldsOf(k)
                /\ Out(k)["network"] = InVnd[k].val["subnet"]
          /\ (validated /\ ~Produced(k)) => OutVnd[k] = InVnd[k]
    /\ \A j \in IpRules :
          SecondIpAt(j) =>
              IF Nets # {}
              THEN /\ error = "KeyError"
                   /\ pc = "crashed"
                   /\ rule_idx = j
                   /\ \A k \in Nets : Produced(k)
              ELSE rule_idx > j

\* the rule was applied twice to a document with non-ingress entries
C10_Witness ==
    /\ SecondIp
    /\ Nets # {}
    /\ \E k \in Nets : Produced(k) /\ TypeOf(k) = "oob"

====
